---- MODULE Spec2Model ----
(***************************************************************************)
(* Model of the bit-exact core of the surgeon crate:                       *)
(*   - the 802.1Q tag codec (src/src/layer/eth_layer.rs, Q802_1Tag),       *)
(*   - the fixed-width primitives Bit, Crumb, U3, Nibble, U12              *)
(*     (src/src/primitives.rs).                                            *)
(* Machine words keep their width: u16 words are numbers in 0..65535 and   *)
(* the bitwise operators work bit by bit on 16-bit words.                  *)
(*                                                                         *)
(* In eth_layer.rs the parameter types of set_pcp and set_vid are written  *)
(* U3 and U12 but are used as native integers (compared with literals,     *)
(* cast with `as`, called with 0b1111_1111 and 0b1111_1111_1111_1111 in    *)
(* the tests): the model takes set_pcp's argument as a u8 and set_vid's    *)
(* as a u16.                                                               *)
(***************************************************************************)
EXTENDS Integers, Sequences, FiniteSets, TLC

VARIABLES
    tag,      \* the Q802_1Tag under test: [tpid, tic]
    origin,   \* how the tag was built: [by: "default", "new" or "literal", tic: the word given]
    last,     \* per sub-field, the value most recently written with success (-1: never)
    calls,    \* number of setter calls made on the tag so far
    op,       \* name of the most recent call
    arg,      \* argument of the most recent call
    ret,      \* what the most recent call returned
    prim      \* the bit primitive under test: [kind, live, value]

vars == <<tag, origin, last, calls, op, arg, ret, prim>>

(***************************************************************************)
(* Bounds of the model.                                                    *)
(***************************************************************************)
\* Longest sequence of setter calls explored on one tag.
MaxCalls == 4

\* Largest number of '.'-separated parts in a string handed to Ipv4Addr::from_str.
MaxParts == 5

(***************************************************************************)
(* 16-bit machine words and their bitwise operators.                       *)
(***************************************************************************)
U16Bits == 16

\* u16::MAX
U16Max == 65535

RECURSIVE Pow2(_)
Pow2(n) == IF n = 0 THEN 1 ELSE 2 * Pow2(n - 1)

U16 == 0 .. U16Max

RECURSIVE BitAndN(_, _, _)
BitAndN(a, b, n) ==
    IF n = 0 THEN 0
    ELSE (IF a % 2 = 1 /\ b % 2 = 1 THEN 1 ELSE 0)
         + 2 * BitAndN(a \div 2, b \div 2, n - 1)

RECURSIVE BitOrN(_, _, _)
BitOrN(a, b, n) ==
    IF n = 0 THEN 0
    ELSE (IF a % 2 = 1 \/ b % 2 = 1 THEN 1 ELSE 0)
         + 2 * BitOrN(a \div 2, b \div 2, n - 1)

RECURSIVE BitNotN(_, _)
BitNotN(a, n) ==
    IF n = 0 THEN 0
    ELSE (IF a % 2 = 1 THEN 0 ELSE 1) + 2 * BitNotN(a \div 2, n - 1)

\* a & b, a | b, !a, a << n, a >> n on u16
BitAnd(a, b) == BitAndN(a, b, U16Bits)
BitOr(a, b) == BitOrN(a, b, U16Bits)
BitNot(a) == BitNotN(a, U16Bits)
Shl(a, n) == (a * Pow2(n)) % (U16Max + 1)
Shr(a, n) == a \div Pow2(n)

\* `value as u16` for a bool and for a u8
BoolAsU16(b) == IF b THEN 1 ELSE 0
U8AsU16(v) == v

(***************************************************************************)
(* Q802_1Tag (eth_layer.rs).                                               *)
(***************************************************************************)
TPID == 33024    \* 0x8100

Q802_1Tag_new(tic) == [tpid |-> TPID, tic |-> tic]

\* Variant of default(): the TPID field is left zero.
Q802_1Tag_default_zero_tpid == [tpid |-> 0, tic |-> 0]

Q802_1Tag_default == [tpid |-> TPID, tic |-> 0]

Q802_1Tag_is_valid(self) == self.tpid = TPID

\* ((self.tic & 0b0001_0000_0000_0000) >> 12) == 1
Q802_1Tag_is_drop_eligible(self) == Shr(BitAnd(self.tic, 4096), 12) = 1

\* ((self.tic & 0b1110_0000_0000_0000) >> 13) as U3
Q802_1Tag_pcp(self) == Shr(BitAnd(self.tic, 57344), 13) % 256

\* Variant of vid(): the mask is one nibble short, 0b0000_0000_1111_1111.
Q802_1Tag_vid_short_mask(self) == BitAnd(self.tic, 255)

\* self.tic & 0b0000_1111_1111_1111
Q802_1Tag_vid(self) == BitAnd(self.tic, 4095)

\* self.tic = (self.tic & !(1 << 12)) | ((value as u16) << 12);
Q802_1Tag_set_drop_eligible(self, value) ==
    [self |-> [self EXCEPT !.tic =
                  BitOr(BitAnd(self.tic, BitNot(Shl(1, 12))),
                        Shl(BoolAsU16(value), 12))],
     ret |-> "Unit"]

\* Variant of set_pcp: the mask is one bit too wide, 0b1111 << 12, and clears DEI as well.
Q802_1Tag_set_pcp_wide_mask(self, pcp) ==
    IF pcp <= 7
    THEN [self |-> [self EXCEPT !.tic =
                       BitOr(BitAnd(self.tic, BitNot(Shl(15, 12))),
                             Shl(U8AsU16(pcp), 13))],
          ret |-> "Ok"]
    ELSE [self |-> self, ret |-> "Err"]

\* if pcp <= 0b0000_0111 { self.tic = (self.tic & !(0b111 << 13)) | ((pcp as u16) << 13); Ok(()) }
\* else { Err(ValueOutOfRange) }
Q802_1Tag_set_pcp(self, pcp) ==
    IF pcp <= 7
    THEN [self |-> [self EXCEPT !.tic =
                       BitOr(BitAnd(self.tic, BitNot(Shl(7, 13))),
                             Shl(U8AsU16(pcp), 13))],
          ret |-> "Ok"]
    ELSE [self |-> self, ret |-> "Err"]

\* Variant of set_vid: the word is written before the range check.
Q802_1Tag_set_vid_write_first(self, vid) ==
    IF vid <= 4095
    THEN [self |-> [self EXCEPT !.tic = BitOr(self.tic, vid)], ret |-> "Ok"]
    ELSE [self |-> [self EXCEPT !.tic = BitOr(self.tic, vid)], ret |-> "Err"]

\* Variant of set_vid: the whole word is assigned, self.tic = vid.
Q802_1Tag_set_vid_assign(self, vid) ==
    IF vid <= 4095
    THEN [self |-> [self EXCEPT !.tic = vid], ret |-> "Ok"]
    ELSE [self |-> self, ret |-> "Err"]

\* Variant of set_vid: the VID bits are cleared before the new value is OR-ed in.
Q802_1Tag_set_vid_clear_first(self, vid) ==
    IF vid <= 4095
    THEN [self |-> [self EXCEPT !.tic =
                       BitOr(BitAnd(self.tic, BitNot(4095)), vid)],
          ret |-> "Ok"]
    ELSE [self |-> self, ret |-> "Err"]

\* if vid <= 0b0000_1111_1111_1111 { self.tic |= vid; Ok(()) } else { Err(ValueOutOfRange) }
Q802_1Tag_set_vid(self, vid) ==
    IF vid <= 4095
    THEN [self |-> [self EXCEPT !.tic = BitOr(self.tic, vid)], ret |-> "Ok"]
    ELSE [self |-> self, ret |-> "Err"]

(***************************************************************************)
(* Inputs of the tag operations.                                           *)
(***************************************************************************)
\* TCI words handed to new(): empty, every single bit, full VID, PCP only,
\* mixed (0xA5A5), full
TicInputs ==
    {0, 4095, 57344, 42405, 65535} \cup {Pow2(i) : i \in 0 .. (U16Bits - 1)}

\* TPIDs of tags written as struct literals: the standard one, 802.1ad's, zero
TpidInputs == {TPID, 34984, 0}

\* u8 arguments of set_pcp: in range (0, 0b101, 0b111) and out of range (8, 0b1111_1111)
PcpInputs == {0, 5, 7, 8, 255}

\* u16 arguments of set_vid: in range (0, 12, 3456, 0xFFF) and out of range (0x1000, 0xFFFF)
VidInputs == {0, 12, 3456, 4095, 4096, 65535}

NoPrim == [kind |-> "none", live |-> FALSE, value |-> 0]

NeverWritten == [pcp |-> -1, dei |-> -1, vid |-> -1]

(***************************************************************************)
(* The tag state machine: construction, then setter calls.                 *)
(***************************************************************************)
InitDefault ==
    /\ tag = Q802_1Tag_default
    /\ origin = [by |-> "default", tic |-> 0]
    /\ op = "default"
    /\ arg = 0

InitNew(tics) ==
    \E t \in tics :
        /\ tag = Q802_1Tag_new(t)
        /\ origin = [by |-> "new", tic |-> t]
        /\ op = "new"
        /\ arg = t

\* Q802_1Tag { tpid, tic } written out field by field, as the module itself may do
InitLiteral ==
    \E tp \in TpidInputs, t \in {0, 42405} :
        /\ tag = [tpid |-> tp, tic |-> t]
        /\ origin = [by |-> "literal", tic |-> t]
        /\ op = "literal"
        /\ arg = t

InitRest ==
    /\ last = NeverWritten
    /\ calls = 0
    /\ ret = "None"
    /\ prim = NoPrim

Init ==
    /\ InitDefault \/ InitNew(TicInputs) \/ InitLiteral
    /\ InitRest

SetPcp(v) ==
    LET r == Q802_1Tag_set_pcp(tag, v) IN
    /\ tag' = r.self
    /\ ret' = r.ret
    /\ op' = "set_pcp"
    /\ arg' = v
    /\ last' = IF r.ret = "Ok" THEN [last EXCEPT !.pcp = v] ELSE last
    /\ calls' = calls + 1
    /\ UNCHANGED <<origin, prim>>

SetDropEligible(v) ==
    LET r == Q802_1Tag_set_drop_eligible(tag, v) IN
    /\ tag' = r.self
    /\ ret' = r.ret
    /\ op' = "set_drop_eligible"
    /\ arg' = v
    /\ last' = [last EXCEPT !.dei = BoolAsU16(v)]
    /\ calls' = calls + 1
    /\ UNCHANGED <<origin, prim>>

SetVid(v) ==
    LET r == Q802_1Tag_set_vid(tag, v) IN
    /\ tag' = r.self
    /\ ret' = r.ret
    /\ op' = "set_vid"
    /\ arg' = v
    /\ last' = IF r.ret = "Ok" THEN [last EXCEPT !.vid = v] ELSE last
    /\ calls' = calls + 1
    /\ UNCHANGED <<origin, prim>>

CallSetPcp == calls < MaxCalls /\ \E v \in PcpInputs : SetPcp(v)

CallSetDropEligible == calls < MaxCalls /\ \E v \in BOOLEAN : SetDropEligible(v)

CallSetVid == calls < MaxCalls /\ \E v \in VidInputs : SetVid(v)

Next == CallSetPcp \/ CallSetDropEligible \/ CallSetVid

Spec == Init /\ [][Next]_vars

(***************************************************************************)
(* Properties of the tag under Spec.                                       *)
(***************************************************************************)
DeiBit(self) == BoolAsU16(Q802_1Tag_is_drop_eligible(self))

\* C1: after any sequence of setter calls on a tag in any starting state,
\* pcp(), is_drop_eligible() and vid() each return the value most recently
\* written with success to that sub-field.
LastWrittenWins ==
    /\ last.pcp # -1 => Q802_1Tag_pcp(tag) = last.pcp
    /\ last.dei # -1 => DeiBit(tag) = last.dei
    /\ last.vid # -1 => Q802_1Tag_vid(tag) = last.vid

\* C7: a successful set_pcp(p) makes pcp() = p and leaves is_drop_eligible(),
\* vid() and the TPID as they were; set_drop_eligible(d) makes
\* is_drop_eligible() = d and leaves pcp(), vid() and the TPID as they were.
SetPcpDeiFrame ==
    [][ /\ (calls' = calls + 1 /\ op' = "set_pcp" /\ ret' = "Ok") =>
              /\ Q802_1Tag_pcp(tag') = arg'
              /\ Q802_1Tag_is_drop_eligible(tag') = Q802_1Tag_is_drop_eligible(tag)
              /\ Q802_1Tag_vid(tag') = Q802_1Tag_vid(tag)
              /\ tag'.tpid = tag.tpid
        /\ (calls' = calls + 1 /\ op' = "set_drop_eligible") =>
              /\ Q802_1Tag_is_drop_eligible(tag') = arg'
              /\ Q802_1Tag_pcp(tag') = Q802_1Tag_pcp(tag)
              /\ Q802_1Tag_vid(tag') = Q802_1Tag_vid(tag)
              /\ tag'.tpid = tag.tpid
      ]_vars

\* C7 witness: on new(0xFFFF), set_pcp(0b101) and then set_drop_eligible(false)
\* have rewritten PCP and DEI while the VID is still 0xFFF.
SetPcpDeiFrameWitness ==
    /\ origin = [by |-> "new", tic |-> 65535]
    /\ calls = 2
    /\ op = "set_drop_eligible"
    /\ arg = FALSE
    /\ last = [pcp |-> 5, dei |-> 0, vid |-> -1]
    /\ tag = [tpid |-> TPID, tic |-> 5 * 8192 + 4095]

\* C8: set_pcp(v) returns Err exactly when v > 0b111, set_vid(v) returns Err
\* exactly when v > 0xFFF, and a call that returns Err leaves the TPID and the
\* whole TCI word as they were.
SetterRangeErrors ==
    [][ /\ (calls' = calls + 1 /\ op' = "set_pcp") =>
              /\ (ret' = "Err") <=> (arg' > 7)
              /\ (ret' = "Ok") <=> (arg' <= 7)
              /\ ret' = "Err" => tag' = tag
        /\ (calls' = calls + 1 /\ op' = "set_vid") =>
              /\ (ret' = "Err") <=> (arg' > 4095)
              /\ (ret' = "Ok") <=> (arg' <= 4095)
              /\ ret' = "Err" => tag' = tag
      ]_vars

\* C8 witness: on new(0xA5A5), a set_pcp and a set_vid have both failed and the
\* tag is as constructed.
SetterRangeErrorsWitness ==
    /\ origin = [by |-> "new", tic |-> 42405]
    /\ calls = 2
    /\ op = "set_vid"
    /\ arg = 4096
    /\ ret = "Err"
    /\ last = NeverWritten
    /\ tag = [tpid |-> TPID, tic |-> 42405]

\* C10: is_valid() is true iff the stored TPID is 0x8100; it is true for
\* default() and new(tic) and stays true under the setters; a tag holding
\* another TPID is not valid while its getters still decode the TCI.
ValidIffStandardTpid ==
    /\ Q802_1Tag_is_valid(tag) <=> (tag.tpid = 33024)
    /\ origin.by \in {"default", "new"} => Q802_1Tag_is_valid(tag)
    /\ tag.tpid # 33024 =>
          /\ ~Q802_1Tag_is_valid(tag)
          /\ Q802_1Tag_pcp(tag) = tag.tic \div 8192
          /\ DeiBit(tag) = (tag.tic \div 4096) % 2
          /\ Q802_1Tag_vid(tag) = tag.tic % 4096

\* C10 witness: a tag written with TPID 0x88A8 has been through setter calls,
\* is not valid and reads PCP 5.
ValidIffStandardTpidWitness ==
    /\ origin.by = "literal"
    /\ tag.tpid = 34984
    /\ calls >= 2
    /\ ~Q802_1Tag_is_valid(tag)
    /\ Q802_1Tag_pcp(tag) = 5

(***************************************************************************)
(* Round trip: from default(), each setter called once with a valid value, *)
(* in any order.  Every valid pcp, dei and vid is tried.                   *)
(***************************************************************************)
ValidPcps == 0 .. 7

ValidVids == 0 .. 4095

InitRoundTrip == InitDefault /\ InitRest

OnceSetPcp == last.pcp = -1 /\ \E v \in ValidPcps : SetPcp(v)

OnceSetDropEligible == last.dei = -1 /\ \E v \in BOOLEAN : SetDropEligible(v)

OnceSetVid == last.vid = -1 /\ \E v \in ValidVids : SetVid(v)

NextRoundTrip == OnceSetPcp \/ OnceSetDropEligible \/ OnceSetVid

SpecRoundTrip == InitRoundTrip /\ [][NextRoundTrip]_vars

AllThreeWritten == last.pcp # -1 /\ last.dei # -1 /\ last.vid # -1

\* C2: from default(), for every pcp in 0..7, dei and vid in 0..4095, calling
\* set_pcp, set_drop_eligible and set_vid once each, in any of the six orders,
\* ends with pcp() = pcp, is_drop_eligible() = dei and vid() = vid.
RoundTripAnyOrder ==
    (origin.by = "default" /\ AllThreeWritten /\ calls = Cardinality(DOMAIN last)) =>
        /\ Q802_1Tag_pcp(tag) = last.pcp
        /\ DeiBit(tag) = last.dei
        /\ Q802_1Tag_vid(tag) = last.vid
        /\ tag.tic = last.pcp * 8192 + last.dei * 4096 + last.vid

\* C2 witness: the order of the last test case (DEI, PCP, then VID) with
\* pcp 0b101, dei true and vid 3456.
RoundTripAnyOrderWitness ==
    /\ origin.by = "default"
    /\ calls = Cardinality(DOMAIN last)
    /\ op = "set_vid"
    /\ last = [pcp |-> 5, dei |-> 1, vid |-> 3456]
    /\ Q802_1Tag_vid(tag) = 3456
    /\ Q802_1Tag_pcp(tag) = 5
    /\ Q802_1Tag_is_drop_eligible(tag)

(***************************************************************************)
(* Decoding: new(t) for every 16-bit word t, then the getters.             *)
(***************************************************************************)
InitDecode == InitNew(U16) /\ InitRest

Getter(name, value) ==
    /\ op' = name
    /\ ret' = value
    /\ arg' = 0
    /\ UNCHANGED <<tag, origin, last, calls, prim>>

GetPcp == Getter("pcp", Q802_1Tag_pcp(tag))

GetIsDropEligible == Getter("is_drop_eligible", Q802_1Tag_is_drop_eligible(tag))

GetVid == Getter("vid", Q802_1Tag_vid(tag))

GetIsValid == Getter("is_valid", Q802_1Tag_is_valid(tag))

NextDecode == GetPcp \/ GetIsDropEligible \/ GetVid \/ GetIsValid

SpecDecode == InitDecode /\ [][NextDecode]_vars

\* C9: for every 16-bit word t given to new(t), pcp() = t div 2^13 (<= 7),
\* is_drop_eligible() = (bit 12 of t is 1), vid() = t mod 2^12 (<= 4095), so
\* t = pcp()*8192 + dei*4096 + vid(); the getters leave the tag as built.
DecodeLayout ==
    (origin.by = "new" /\ calls = 0) =>
        LET t == origin.tic IN
        /\ tag = [tpid |-> 33024, tic |-> t]
        /\ Q802_1Tag_pcp(tag) = t \div 8192
        /\ Q802_1Tag_pcp(tag) <= 7
        /\ Q802_1Tag_is_drop_eligible(tag) <=> ((t \div 4096) % 2 = 1)
        /\ Q802_1Tag_vid(tag) = t % 4096
        /\ Q802_1Tag_vid(tag) <= 4095
        /\ t = Q802_1Tag_pcp(tag) * 8192 + DeiBit(tag) * 4096 + Q802_1Tag_vid(tag)
        /\ op = "pcp" => ret = t \div 8192
        /\ op = "is_drop_eligible" => (ret <=> ((t \div 4096) % 2 = 1))
        /\ op = "vid" => ret = t % 4096

\* C9 witness: vid() has been read on new(0xA5A5) and returned 0x5A5.
DecodeLayoutWitness ==
    /\ origin = [by |-> "new", tic |-> 42405]
    /\ op = "vid"
    /\ ret = 1445
    /\ tag = [tpid |-> TPID, tic |-> 42405]

(***************************************************************************)
(* Bit primitives (primitives.rs): Bit, Crumb, U3, Nibble over u8 and U12  *)
(* over u16.  An instance is [kind, live, value]; live is FALSE when no    *)
(* instance exists (try_from returned Err).                                *)
(***************************************************************************)
Kinds == {"Bit", "Crumb", "U3", "Nibble", "U12"}

\* type RustPrimitive: u8, or u16 for U12; the largest value of that type
RustPrimitiveMax(kind) == IF kind = "U12" THEN 65535 ELSE 255

RustPrimitive(kind) == 0 .. RustPrimitiveMax(kind)

\* Marks a constant expression that overflows its type (rejected at build time).
Overflow == -1

\* a * b on an unsigned type whose largest value is max
CheckedMul(a, b, max) ==
    IF a = Overflow \/ a * b > max THEN Overflow ELSE a * b

\* base.pow(exp) on an unsigned type whose largest value is max
RECURSIVE CheckedPow(_, _, _)
CheckedPow(base, exp, max) ==
    IF exp = 0 THEN 1
    ELSE CheckedMul(CheckedPow(base, exp - 1, max), base, max)

\* a - b on an unsigned type
CheckedSub(a, b) == IF a = Overflow \/ a < b THEN Overflow ELSE a - b

BIT_WIDTH(kind) ==
    CASE kind = "Bit" -> 1
      [] kind = "Crumb" -> 2
      [] kind = "U3" -> 3
      [] kind = "Nibble" -> 4
      [] kind = "U12" -> 12

MIN_VALUE(kind) == 0

\* Variant of MAX_VALUE: every type uses Bit's formula, 2.pow(BIT_WIDTH - 1).
MAX_VALUE_as_bit(kind) ==
    CheckedPow(2, BIT_WIDTH(kind) - 1, RustPrimitiveMax(kind))

\* Bit: 2u8.pow(Self::BIT_WIDTH - 1); the others: 2.pow(Self::BIT_WIDTH) - 1
MAX_VALUE(kind) ==
    IF kind = "Bit"
    THEN CheckedPow(2, BIT_WIDTH(kind) - 1, RustPrimitiveMax(kind))
    ELSE CheckedSub(CheckedPow(2, BIT_WIDTH(kind), RustPrimitiveMax(kind)), 1)

\* #[derive(Default)]: value 0
BitPrimitive_default(kind) == [kind |-> kind, live |-> TRUE, value |-> 0]

BitPrimitive_is_valid(self) ==
    self.value >= MIN_VALUE(self.kind) /\ self.value <= MAX_VALUE(self.kind)

BitPrimitive_value(self) == self.value

\* Variant of set: the upper comparison is strict, value < MAX_VALUE.
BitPrimitive_set_strict(self, value) ==
    IF value >= MIN_VALUE(self.kind) /\ value < MAX_VALUE(self.kind)
    THEN [self |-> [self EXCEPT !.value = value], ret |-> "Ok"]
    ELSE [self |-> self, ret |-> "Err"]

\* Variant of set: the value is stored before it is checked.
BitPrimitive_set_store_first(self, value) ==
    IF value >= MIN_VALUE(self.kind) /\ value <= MAX_VALUE(self.kind)
    THEN [self |-> [self EXCEPT !.value = value], ret |-> "Ok"]
    ELSE [self |-> [self EXCEPT !.value = value], ret |-> "Err"]

BitPrimitive_set(self, value) ==
    IF value >= MIN_VALUE(self.kind) /\ value <= MAX_VALUE(self.kind)
    THEN [self |-> [self EXCEPT !.value = value], ret |-> "Ok"]
    ELSE [self |-> self, ret |-> "Err"]

\* Variant of try_from: the value is truncated to the type's width and accepted.
BitPrimitive_try_from_truncating(kind, value) ==
    [self |-> [kind |-> kind, live |-> TRUE,
               value |-> value % Pow2(BIT_WIDTH(kind))],
     ret |-> "Ok"]

BitPrimitive_try_from(kind, value) ==
    IF value >= MIN_VALUE(kind) /\ value <= MAX_VALUE(kind)
    THEN [self |-> [kind |-> kind, live |-> TRUE, value |-> value], ret |-> "Ok"]
    ELSE [self |-> [kind |-> kind, live |-> FALSE, value |-> 0], ret |-> "Err"]

(***************************************************************************)
(* The primitive state machine: one construction, then set calls.          *)
(***************************************************************************)
\* Arguments of set.  u8 types: every value a u8 type accepts and the values
\* just above the widest of them, then the middle and the top of u8.  U12: the
\* values around its limits, then the middle and the top of u16.
SetInputs(kind) ==
    IF kind = "U12"
    THEN {0, 1, 2048, 4094, 4095, 4096, 4097, 32768, 65535}
    ELSE (0 .. 17) \cup {127, 128, 254, 255}

InitPrim ==
    /\ tag = Q802_1Tag_default
    /\ origin = [by |-> "default", tic |-> 0]
    /\ last = NeverWritten
    /\ calls = 0
    /\ op = "none"
    /\ arg = 0
    /\ ret = "None"
    /\ prim = NoPrim

PrimDefault ==
    /\ op = "none"
    /\ \E k \in Kinds :
          /\ prim' = BitPrimitive_default(k)
          /\ op' = "default"
          /\ arg' = 0
          /\ ret' = "Ok"
    /\ UNCHANGED <<tag, origin, last, calls>>

PrimTryFrom ==
    /\ op = "none"
    /\ \E k \in Kinds : \E v \in RustPrimitive(k) :
          LET r == BitPrimitive_try_from(k, v) IN
          /\ prim' = r.self
          /\ ret' = r.ret
          /\ op' = "try_from"
          /\ arg' = v
    /\ UNCHANGED <<tag, origin, last, calls>>

PrimSet ==
    /\ prim.live
    /\ \E v \in SetInputs(prim.kind) :
          LET r == BitPrimitive_set(prim, v) IN
          /\ prim' = r.self
          /\ ret' = r.ret
          /\ op' = "set"
          /\ arg' = v
    /\ UNCHANGED <<tag, origin, last, calls>>

NextPrim == PrimDefault \/ PrimTryFrom \/ PrimSet

SpecPrim == InitPrim /\ [][NextPrim]_vars

\* The widths and largest values the primitives are specified to have.
SpecWidth == [Bit |-> 1, Crumb |-> 2, U3 |-> 3, Nibble |-> 4, U12 |-> 12]

SpecMax == [Bit |-> 1, Crumb |-> 3, U3 |-> 7, Nibble |-> 15, U12 |-> 4095]

\* C3: for each primitive type of width W and every raw value v of its native
\* type, try_from(v) succeeds iff v <= 2^W - 1 and then value() = v; otherwise
\* it returns Err and yields no instance.
TryFromInRangeOnly ==
    op = "try_from" =>
        /\ (ret = "Ok") <=> (0 <= arg /\ arg <= Pow2(SpecWidth[prim.kind]) - 1)
        /\ (ret = "Err") <=> (arg > Pow2(SpecWidth[prim.kind]) - 1)
        /\ ret = "Ok" => (prim.live /\ BitPrimitive_value(prim) = arg)
        /\ ret = "Err" => ~prim.live

\* C3 witness: U12::try_from(4096) has returned Err.
TryFromInRangeOnlyWitness ==
    /\ op = "try_from"
    /\ prim.kind = "U12"
    /\ arg = 4096
    /\ ret = "Err"

\* C4: set(v) with v <= 2^W - 1 returns Ok and then value() = v; set(v) with
\* v > 2^W - 1 returns Err and leaves value() as it was.
SetChecksRange ==
    [][ op' = "set" =>
          /\ arg' <= Pow2(SpecWidth[prim'.kind]) - 1 =>
                (ret' = "Ok" /\ BitPrimitive_value(prim') = arg')
          /\ arg' > Pow2(SpecWidth[prim'.kind]) - 1 =>
                (ret' = "Err" /\ BitPrimitive_value(prim') = BitPrimitive_value(prim)
                 /\ prim' = prim)
      ]_vars

\* C4 witness: a Nibble holding 15 has refused set(16) and still holds 15.
SetChecksRangeWitness ==
    /\ op = "set"
    /\ prim = [kind |-> "Nibble", live |-> TRUE, value |-> 15]
    /\ arg = 16
    /\ ret = "Err"

\* C5: in every state reached by default(), try_from(v) and any sequence of
\* set(v) calls, the stored value is within [0, 2^W - 1] and is_valid() is true.
StoredValueInRange ==
    prim.live =>
        /\ 0 <= BitPrimitive_value(prim)
        /\ BitPrimitive_value(prim) <= Pow2(SpecWidth[prim.kind]) - 1
        /\ BitPrimitive_is_valid(prim)

\* C5 witness: a U12 still holds 4095 after set(65535) was refused.
StoredValueInRangeWitness ==
    /\ op = "set"
    /\ prim = [kind |-> "U12", live |-> TRUE, value |-> 4095]
    /\ arg = 65535
    /\ ret = "Err"
    /\ BitPrimitive_is_valid(prim)

\* C6: for every width W in {1, 2, 3, 4, 12}: MIN_VALUE = 0, BIT_WIDTH = W and
\* MAX_VALUE = 2^W - 1 (1, 3, 7, 15, 4095), Bit's 2^(BIT_WIDTH - 1) included,
\* each computed within the native type.
ConstantsPerWidth ==
    prim.kind \in Kinds =>
        \A k \in Kinds :
            /\ MIN_VALUE(k) = 0
            /\ BIT_WIDTH(k) = SpecWidth[k]
            /\ MAX_VALUE(k) # Overflow
            /\ MAX_VALUE(k) = SpecMax[k]
            /\ MAX_VALUE(k) = Pow2(SpecWidth[k]) - 1
            /\ MAX_VALUE(k) \in RustPrimitive(k)

\* C6 witness: a Bit holds its MAX_VALUE, 1, after set(1), and a Crumb's
\* MAX_VALUE is 3.
ConstantsPerWidthWitness ==
    /\ op = "set"
    /\ ret = "Ok"
    /\ prim = [kind |-> "Bit", live |-> TRUE, value |-> 1]
    /\ BitPrimitive_value(prim) = MAX_VALUE("Bit")
    /\ MAX_VALUE("Crumb") = 3

(***************************************************************************)
(* EtherType (eth_layer.rs): the enum, its u16 codes and try_from.         *)
(***************************************************************************)
EtherTypes == {"IPv4", "Empty"}

\* #[repr(u16)] enum EtherType { IPv4 = 0x0800, Empty = 0x0000 }: `e as u16`
EtherType_code(e) == IF e = "IPv4" THEN 2048 ELSE 0

EthOk(e) == [ok |-> TRUE, val |-> e]

EthErr(e) == [ok |-> FALSE, val |-> e]

\* Variant of try_from: the length guard is strict, value < 1500.
EtherType_try_from_strict(value) ==
    IF value < 1500 THEN EthErr("EtherTypeIsLength")
    ELSE IF value = 2048 THEN EthOk("IPv4")
    ELSE EthErr("UnknownEtherType")

\* Variant of try_from: the Empty code is matched as a type before the length guard.
EtherType_try_from_empty_arm(value) ==
    IF value = 0 THEN EthOk("Empty")
    ELSE IF value <= 1500 THEN EthErr("EtherTypeIsLength")
    ELSE IF value = 2048 THEN EthOk("IPv4")
    ELSE EthErr("UnknownEtherType")

\* match value { _ if value <= 1500 => Err(EtherTypeIsLength),
\*               0x0800 => Ok(IPv4), _ => Err(UnknownEtherType) }
EtherType_try_from(value) ==
    IF value <= 1500 THEN EthErr("EtherTypeIsLength")
    ELSE IF value = 2048 THEN EthOk("IPv4")
    ELSE EthErr("UnknownEtherType")

InitEther == InitPrim

\* EtherType::try_from(v) for every u16
EtherTryFrom ==
    /\ op = "none"
    /\ \E v \in U16 :
          /\ op' = "ether_type_try_from"
          /\ arg' = v
          /\ ret' = EtherType_try_from(v)
    /\ UNCHANGED <<tag, origin, last, calls, prim>>

\* EtherType::try_from(e as u16) for every variant e
EtherRoundTrip ==
    /\ op = "none"
    /\ \E e \in EtherTypes :
          /\ op' = "ether_type_round_trip"
          /\ arg' = e
          /\ ret' = EtherType_try_from(EtherType_code(e))
    /\ UNCHANGED <<tag, origin, last, calls, prim>>

NextEther == EtherTryFrom \/ EtherRoundTrip

SpecEther == InitEther /\ [][NextEther]_vars

\* C11: for every 16-bit v, EtherType::try_from(v) is Err(EtherTypeIsLength)
\* if v <= 1500, Ok(IPv4) if v = 0x0800 and Err(UnknownEtherType) for every
\* other v; exactly one of the three applies.
EtherTypeThreeWay ==
    op = "ether_type_try_from" =>
        /\ (ret = EthErr("EtherTypeIsLength")) <=> (arg <= 1500)
        /\ (ret = EthOk("IPv4")) <=> (arg = 2048)
        /\ (ret = EthErr("UnknownEtherType")) <=> (arg > 1500 /\ arg # 2048)
        /\ ret \in {EthErr("EtherTypeIsLength"), EthOk("IPv4"),
                    EthErr("UnknownEtherType")}

\* C11 witness: try_from(1500) has returned Err(EtherTypeIsLength).
EtherTypeThreeWayWitness ==
    /\ op = "ether_type_try_from"
    /\ arg = 1500
    /\ ret = EthErr("EtherTypeIsLength")

\* C15: whenever try_from(v) returns Ok(e), the code of e equals v and e is not
\* Empty; try_from of Empty's code (0) is Err(EtherTypeIsLength), so the
\* code/try_from round trip holds for IPv4 only.
EtherTypeCodeRoundTrip ==
    /\ (op = "ether_type_try_from" /\ ret.ok) =>
          (EtherType_code(ret.val) = arg /\ ret.val # "Empty")
    /\ op = "ether_type_round_trip" =>
          /\ (ret = EthOk(arg)) <=> (arg = "IPv4")
          /\ arg = "Empty" => ret = EthErr("EtherTypeIsLength")

\* C15 witness: the code of Empty has been handed back to try_from and refused
\* as a length.
EtherTypeCodeRoundTripWitness ==
    /\ op = "ether_type_round_trip"
    /\ arg = "Empty"
    /\ ret = EthErr("EtherTypeIsLength")

(***************************************************************************)
(* Further properties of the tag under Spec: order of the PCP and DEI      *)
(* setters, and what set_vid does to the word.                             *)
(***************************************************************************)
\* The positions of the 1-bits of a 16-bit word.
RECURSIVE OneBitsFrom(_, _)
OneBitsFrom(x, i) ==
    IF x = 0 THEN {}
    ELSE (IF x % 2 = 1 THEN {i} ELSE {}) \cup OneBitsFrom(x \div 2, i + 1)

OneBits(x) == OneBitsFrom(x, 0)

PcpThenDei(self, p, d) ==
    Q802_1Tag_set_drop_eligible(Q802_1Tag_set_pcp(self, p).self, d).self

DeiThenPcp(self, p, d) ==
    Q802_1Tag_set_pcp(Q802_1Tag_set_drop_eligible(self, d).self, p).self

\* Any tag, then set_pcp and set_drop_eligible once each, in either order,
\* with every valid pcp and both values of dei.
NextCommute == OnceSetPcp \/ OnceSetDropEligible

SpecCommute == Init /\ [][NextCommute]_vars

\* The tag as it was constructed.
AsBuilt ==
    [tpid |-> IF origin.by = "literal" THEN tag.tpid ELSE 33024,
     tic |-> origin.tic]

\* C12: for every tag state, every p in 0..7 and every d, set_pcp(p) then
\* set_drop_eligible(d) yields the same tag (TPID and TCI word) as
\* set_drop_eligible(d) then set_pcp(p), and vid() is what it was before.
PcpDeiCommute ==
    (last.pcp # -1 /\ last.dei # -1 /\ last.vid = -1 /\ calls = 2) =>
        /\ tag = PcpThenDei(AsBuilt, last.pcp, last.dei = 1)
        /\ tag = DeiThenPcp(AsBuilt, last.pcp, last.dei = 1)
        /\ Q802_1Tag_vid(tag) = Q802_1Tag_vid(AsBuilt)

\* C12 witness: on new(0xA5A5), set_drop_eligible(true) and then set_pcp(0b011)
\* have run, the order opposite to PcpThenDei.
PcpDeiCommuteWitness ==
    /\ origin = [by |-> "new", tic |-> 42405]
    /\ calls = 2
    /\ op = "set_pcp"
    /\ ret = "Ok"
    /\ last = [pcp |-> 3, dei |-> 1, vid |-> -1]
    /\ tag = PcpThenDei(Q802_1Tag_new(42405), 3, TRUE)
    /\ tag.tic = 3 * 8192 + 4096 + 1445

DigitValue ==
    [c \in {"0", "1", "2", "3", "4", "5", "6", "7", "8", "9"} |->
        CASE c = "0" -> 0 [] c = "1" -> 1 [] c = "2" -> 2 [] c = "3" -> 3
          [] c = "4" -> 4 [] c = "5" -> 5 [] c = "6" -> 6 [] c = "7" -> 7
          [] c = "8" -> 8 [] c = "9" -> 9]

ParseOk(v) == [ok |-> TRUE, val |-> v, err |-> ""]

ParseErr(e) == [ok |-> FALSE, val |-> 0, err |-> e]

\* The digit loop of u8::from_str: each character must be a digit, and
\* result * 10 + digit must stay within u8.
RECURSIVE ParseDigits(_, _)
ParseDigits(digits, acc) ==
    IF digits = <<>> THEN ParseOk(acc)
    ELSE IF Head(digits) \notin DOMAIN DigitValue THEN ParseErr("InvalidDigit")
    ELSE IF acc * 10 + DigitValue[Head(digits)] > 255 THEN ParseErr("PosOverflow")
    ELSE ParseDigits(Tail(digits), acc * 10 + DigitValue[Head(digits)])

\* str::parse::<u8>(): empty input and a lone sign are errors; one leading '+'
\* is accepted.
ParseU8(str) ==
    IF str = <<>> THEN ParseErr("Empty")
    ELSE IF Head(str) = "+"
         THEN (IF Tail(str) = <<>> THEN ParseErr("InvalidDigit")
               ELSE ParseDigits(Tail(str), 0))
         ELSE ParseDigits(str, 0)

\* One step of split('.'): c is the next character, rest the split of what follows.
SplitStep(c, rest) ==
    IF c = "." THEN << <<>> >> \o rest
    ELSE << <<c>> \o Head(rest) >> \o Tail(rest)

\* string.split('.').collect(): always at least one part, empty parts kept
RECURSIVE SplitDot(_)
SplitDot(str) ==
    IF str = <<>> THEN << <<>> >>
    ELSE SplitStep(Head(str), SplitDot(Tail(str)))

IpOk(addr) == [kind |-> "Ok", err |-> "", addr |-> addr]

IpErr(e) == [kind |-> "Err", err |-> e, addr |-> <<>>]

\* The thread panics: index out of bounds.
IpPanic == [kind |-> "Panic", err |-> "index out of bounds", addr |-> <<>>]

\* Ok(Ipv4Addr(octets[0].parse()?, octets[1].parse()?, octets[2].parse()?,
\* octets[3].parse()?)), evaluated left to right: indexing octets[i] past the
\* end panics, a failed parse returns Err(InvalidAddress).
RECURSIVE ParseOctets(_, _, _)
ParseOctets(octets, i, addr) ==
    IF i > 4 THEN IpOk(addr)
    ELSE IF i > Len(octets) THEN IpPanic
    ELSE IF ~ParseU8(octets[i]).ok THEN IpErr("InvalidAddress")
    ELSE ParseOctets(octets, i + 1, Append(addr, ParseU8(octets[i]).val))

\* let octets = string.split('.').collect();
\* if octets.len() > 4 { return Err(InvalidLength); }
Ipv4Addr_from_str(string) ==
    IF Len(SplitDot(string)) > 4 THEN IpErr("InvalidLength")
    ELSE ParseOctets(SplitDot(string), 1, <<>>)

\* The parts strings are assembled from: empty, "0", "255", "256", "a", "+1".
PartInputs ==
    { <<>>, <<"0">>, <<"2", "5", "5">>, <<"2", "5", "6">>, <<"a">>, <<"+", "1">> }

\* parts joined with '.'
RECURSIVE JoinDot(_)
JoinDot(parts) ==
    IF Len(parts) = 1 THEN parts[1]
    ELSE parts[1] \o <<".">> \o JoinDot(Tail(parts))

InitIp == InitPrim

IpFromStr ==
    /\ op = "none"
    /\ \E n \in 1 .. MaxParts : \E parts \in [1 .. n -> PartInputs] :
          /\ op' = "ipv4_from_str"
          /\ arg' = JoinDot(parts)
          /\ ret' = Ipv4Addr_from_str(JoinDot(parts))
    /\ UNCHANGED <<tag, origin, last, calls, prim>>

NextIp == IpFromStr

SpecIp == InitIp /\ [][NextIp]_vars

\* The number of '.'-separated parts of a string: its dots plus one.
DotParts(str) == Cardinality({i \in 1 .. Len(str) : str[i] = "."}) + 1

\* C16: Ipv4Addr::from_str returns a Result for every input and never faults:
\* an input with fewer or more than 4 parts yields Err, and an input with
\* exactly 4 parts yields Ok iff every part parses as a u8.
FromStrNeverFaults ==
    op = "ipv4_from_str" =>
        /\ ret.kind \in {"Ok", "Err"}
        /\ DotParts(arg) # 4 => ret.kind = "Err"
        /\ DotParts(arg) = 4 =>
              ((ret.kind = "Ok") <=>
                  \A i \in 1 .. 4 : ParseU8(SplitDot(arg)[i]).ok)

====
